---- MODULE Spec2Model ----
(***************************************************************************)
(* Model of signal_bot_15m.py: a single-threaded scanner that, on every    *)
(* 15-minute boundary, fetches candles for each configured pair, tests     *)
(* the last closed candle for a Hammer / Shooting Star shape, posts a      *)
(* message and appends a log line on a match, and sleeps to the next       *)
(* boundary.                                                               *)
(*                                                                         *)
(* Time is counted in whole seconds.  Prices are counted in integer ticks  *)
(* and the threshold tests body * 1.8 and body * 0.6 are evaluated         *)
(* exactly, as 10 * wick against 18 * body and 6 * body.                   *)
(***************************************************************************)
EXTENDS Integers, Sequences, FiniteSets

VARIABLES
    pc,          \* position of main(): "start", "cycle_start", "analyze",
                 \* "send", "log", "pair_delay", "cycle_sleep", "crashed"
                 \* ("off" when main() is not run)
    now,         \* time.time(), whole seconds
    cycle,       \* number of scan cycles begun so far
    idx,         \* position of "for pair in PAIRS" (0 outside the loop)
    df,          \* the candles fetched for the current pair (oldest first)
    signals,     \* the list analyze_pair returned for the current pair
    fetchRes,    \* current pair: "none", "ok", "error"
    sendRes,     \* current pair: "none", "ok", "non200", "exception"
    logRes,      \* current pair: "none", "ok", "error"
    caught,      \* current pair: what the except of main() caught
    logfile,     \* the lines of signals.log, oldest first
    fetched,     \* this cycle: the pairs whose fetch was attempted, in order
    finished,    \* this cycle: the pairs whose loop body has ended, in order
    fetchFailed, \* this cycle: pairs whose fetch raised
    shortFetch,  \* this cycle: pairs whose fetch returned fewer than 2 bars
    sendFailed,  \* this cycle: pairs whose message post failed
    logFailed,   \* this cycle: pairs whose log append raised
    delays,      \* this cycle: number of inter-pair delays slept
    k,           \* position of the for loop over signals (0 outside)
    slept,       \* at "cycle_start": the duration requested of the boundary
                 \* sleep that has just returned (0: there was none)
    sleepAt,     \* at "cycle_start": the time at which it was requested
    sleepsDone,  \* number of inter-cycle sleeps completed
    used,        \* environment: faults, pattern data and slow calls so far
    calls,       \* current pair: the calls made for it, in order ("fetch",
                 \* "send", "log")
    logged,      \* this cycle: the pairs a log line was appended for, in order
    began,       \* the time at which the last cycle began
    bar,         \* candle checker: the candle under test
    verdict,     \* candle checker: what the detectors said of bar, once done
    t,           \* clock checker: the timestamp under test
    w            \* clock checker: the wait returned for t, -1 before the call

driverVars == <<pc, now, cycle, idx, df, signals, fetchRes, sendRes, logRes,
                caught, logfile, fetched, finished, fetchFailed, shortFetch,
                sendFailed, logFailed, delays, k, slept, sleepAt, sleepsDone,
                used, calls, logged, began>>
candleVars == <<bar, verdict>>
clockVars == <<t, w>>
vars == <<driverVars, candleVars, clockVars>>

----------------------------------------------------------------------------
\* Configuration (lines 16-19).

\* PAIRS = ["ETH/USDT", "BCH/USDT", "SOL/USDT", "TON/USDT", "LINK/USDT"]
PAIRS == <<"ETH/USDT", "BCH/USDT", "SOL/USDT", "TON/USDT", "LINK/USDT">>

FETCH_LIMIT == 10

INTER_PAIR_DELAY == 1

\* 15 * 60, the length of a candle in seconds
TIMEFRAME_SECONDS == 900

\* the "+ 1" added to both boundary sleeps
SAFETY == 1

----------------------------------------------------------------------------
\* Bounds of the model.

\* largest price, in ticks, of the candles enumerated by the candle checker
MaxPrice == 4

\* longest candle sequence the exchange returns in the model (<= FETCH_LIMIT)
MaxBars == 2

\* the process starts at a time in 0 .. MaxStart
MaxStart == 899

\* a slow network call (fetch or message post) takes this many seconds,
\* every other one none
LongIO == 894

\* slow network calls per behaviour
MaxSlow == 1

\* faults per behaviour: a fetch that raises or returns fewer than two
\* candles, a message post that fails, a log append that raises
MaxFaults == 1

\* fetches per behaviour that return a candle other than PlainBar
MaxPatterns == 1

\* slow calls, faults and pattern fetches per behaviour, taken together
MaxEvents == 2

\* scan cycles run per behaviour
MaxCycles == 2

\* timestamps handed to the clock checker: -MaxClock .. MaxClock
MaxClock == 1000

Min(a, b) == IF a < b THEN a ELSE b
Max(a, b) == IF a > b THEN a ELSE b
Abs(a) == IF a < 0 THEN -a ELSE a

----------------------------------------------------------------------------
\* Pattern detector (lines 48-64).

Candle(o, h, l, cl) == [open |-> o, high |-> h, low |-> l, close |-> cl]

\* is_hammer_candle without its "if body == 0: return False"
is_hammer_candle_unguarded(c) ==
    LET body == Abs(c.close - c.open)
        lower == Min(c.open, c.close) - c.low
        upper == c.high - Max(c.open, c.close)
    IN  (10 * lower > 18 * body) /\ (10 * upper < 6 * body)

\* is_hammer_candle with its two thresholds taken for one another
is_hammer_candle_thresholds(c) ==
    LET body == Abs(c.close - c.open)
        lower == Min(c.open, c.close) - c.low
        upper == c.high - Max(c.open, c.close)
    IN  IF body = 0 THEN FALSE
        ELSE (10 * lower > 6 * body) /\ (10 * upper < 18 * body)

\* is_hammer_candle with the upper wick measured from min(o, cl)
is_hammer_candle_from_min(c) ==
    LET body == Abs(c.close - c.open)
        lower == Min(c.open, c.close) - c.low
        upper == c.high - Min(c.open, c.close)
    IN  IF body = 0 THEN FALSE
        ELSE (10 * lower > 18 * body) /\ (10 * upper < 6 * body)

is_hammer_candle(c) ==
    LET body == Abs(c.close - c.open)
        lower == Min(c.open, c.close) - c.low
        upper == c.high - Max(c.open, c.close)
    IN  IF body = 0 THEN FALSE
        ELSE (10 * lower > 18 * body) /\ (10 * upper < 6 * body)

\* is_shooting_star_candle with the two wicks taken for one another
is_shooting_star_candle_swapped(c) ==
    LET body == Abs(c.close - c.open)
        upper == Min(c.open, c.close) - c.low
        lower == c.high - Max(c.open, c.close)
    IN  IF body = 0 THEN FALSE
        ELSE (10 * upper > 18 * body) /\ (10 * lower < 6 * body)

is_shooting_star_candle(c) ==
    LET body == Abs(c.close - c.open)
        upper == c.high - Max(c.open, c.close)
        lower == Min(c.open, c.close) - c.low
    IN  IF body = 0 THEN FALSE
        ELSE (10 * upper > 18 * body) /\ (10 * lower < 6 * body)

----------------------------------------------------------------------------
\* Candle fetcher and analyze_pair (lines 39-45, 66-90).

\* What exchange.fetch_ohlcv does: it raises, or it returns candles.
FetchRaised == [ok |-> FALSE, data |-> <<>>]
FetchReturned(data) == [ok |-> TRUE, data |-> data]

\* df.iloc[n] for a negative n: the n-th row counted from the newest one.
\* Defined only when the row exists; the caller tests HasRow first.
HasRow(rows, n) == Len(rows) + n + 1 >= 1

\* iloc that always yields the newest row
iloc_newest(rows, n) == rows[Len(rows)]

iloc(rows, n) == rows[Len(rows) + n + 1]

\* an except clause for the fetch that ends the process instead of
\* returning the empty list
fetch_except_exits == [raised |-> "BaseException", signals |-> <<>>]

\* "except Exception as e: print(...); return []" of analyze_pair
\* (lines 69-71)
fetch_except == [raised |-> "none", signals |-> <<>>]

\* The value of analyze_pair(pair) given what the fetch did.  raised is
\* "none" when it returns, else the class of the exception that leaves it.
analyze_pair(fetch) ==
    IF ~fetch.ok
    THEN fetch_except
    ELSE IF ~HasRow(fetch.data, -2)
    THEN [raised |-> "Exception", signals |-> <<>>]       \* line 74, IndexError
    ELSE LET last_closed == iloc(fetch.data, -2)
             candle == Candle(last_closed.open, last_closed.high,
                              last_closed.low, last_closed.close)
         IN  IF is_hammer_candle(candle)
             THEN [raised |-> "none",
                   signals |-> <<<<"HAMMER", "LONG", last_closed.close>>>>]
             ELSE IF is_shooting_star_candle(candle)
             THEN [raised |-> "none",
                   signals |-> <<<<"SHOOTING_STAR", "SHORT", last_closed.close>>>>]
             ELSE [raised |-> "none", signals |-> <<>>]

\* a fetch that is tried a second time when it raises
fetch_attempts_retry(fetch) == IF fetch.ok THEN 1 ELSE 2

\* the number of times exchange.fetch_ohlcv is called by one
\* fetch_ohlcv_df(pair) (line 40), whatever the call does
fetch_attempts(fetch) == 1

\* n times the element x
Repeat(x, n) == [i \in 1..n |-> x]

\* seconds_until_next_15min without its "if rem == 0: return 0"
seconds_until_next_15min_full(tm) ==
    TIMEFRAME_SECONDS - (tm % TIMEFRAME_SECONDS)

\* seconds_until_next_15min() when time.time() is tm (lines 92-99).
seconds_until_next_15min(tm) ==
    LET rem == tm % TIMEFRAME_SECONDS
    IN  IF rem = 0 THEN 0 ELSE TIMEFRAME_SECONDS - rem

\* send_telegram without its try/except
send_telegram_unguarded(post) ==
    IF post = "exception" THEN "Exception" ELSE "none"

\* send_telegram(text) given what requests.post did (lines 24-32): the
\* class of the exception that leaves it, "none" when it returns.
send_telegram(post) == "none"

\* a per-pair try whose except clause names a class none of the raised
\* exceptions belongs to
MainCatchesNothing(exc) == FALSE

\* "except Exception as e" of the per-pair try of main() (line 130).
MainCatches(exc) == exc = "Exception"

\* the pairs scanned in alphabetical order
ScanOrderSorted ==
    <<"BCH/USDT", "ETH/USDT", "LINK/USDT", "SOL/USDT", "TON/USDT">>

\* "for pair in PAIRS" (line 114): the pairs in the order they are scanned.
ScanOrder == PAIRS

\* to_sleep without "if to_sleep == 0: to_sleep = 15 * 60"
to_sleep_unfixed(tm) == seconds_until_next_15min(tm)

\* a sleep of one full candle whatever the time
to_sleep_period(tm) == TIMEFRAME_SECONDS

\* to_sleep after lines 135-138, when time.time() is tm.
to_sleep(tm) ==
    LET computed == seconds_until_next_15min(tm)
    IN  IF computed = 0 THEN TIMEFRAME_SECONDS ELSE computed

----------------------------------------------------------------------------
\* Environment of the driver.

\* candles the exchange serves in the model: a hammer, a shooting star
\* and a candle of neither shape
HammerBar == Candle(2, 3, 0, 3)
StarBar == Candle(1, 4, 0, 0)
PlainBar == Candle(1, 2, 1, 2)
ServedBars == {HammerBar, StarBar, PlainBar}

SeqsUpTo(S, n) == UNION {[1..m -> S] : m \in 0..n}

FetchOutcomes ==
    {FetchRaised} \cup
    {FetchReturned(d) : d \in SeqsUpTo(ServedBars, Min(MaxBars, FETCH_LIMIT))}

PostOutcomes == {"ok", "non200", "exception"}

IoDurations == {0, LongIO}

Faulty(fetch) == ~fetch.ok \/ Len(fetch.data) < 2
Quiet(data) == \A i \in 1..Len(data) : data[i] = PlainBar

\* the environment's counters after a call that took d seconds, was a fault
\* if fault, and returned candles other than PlainBar if pattern
Spend(d, fault, pattern) ==
    [slow |-> used.slow + (IF d # 0 THEN 1 ELSE 0),
     faults |-> used.faults + (IF fault THEN 1 ELSE 0),
     patterns |-> used.patterns + (IF pattern THEN 1 ELSE 0)]

Allowed(u) ==
    /\ u.slow <= MaxSlow /\ u.faults <= MaxFaults /\ u.patterns <= MaxPatterns
    /\ u.slow + u.faults + u.patterns <= MaxEvents

----------------------------------------------------------------------------
\* main() (lines 101-140).

NoPair ==
    /\ df = <<>> /\ signals = <<>> /\ fetchRes = "none" /\ sendRes = "none"
    /\ logRes = "none" /\ caught = "none" /\ k = 0

NoVerdict == [done |-> FALSE, hammer |-> FALSE, star |-> FALSE,
              signals |-> <<>>]

CandleIdle == bar = Candle(0, 0, 0, 0) /\ verdict = NoVerdict
ClockIdle == t = 0 /\ w = -1

DriverAt(p, tm) ==
    /\ pc = p
    /\ now = tm
    /\ cycle = 0
    /\ idx = 0
    /\ NoPair
    /\ fetched = <<>> /\ finished = <<>>
    /\ fetchFailed = {} /\ shortFetch = {} /\ sendFailed = {} /\ logFailed = {}
    /\ delays = 0
    /\ slept = 0 /\ sleepAt = 0 /\ sleepsDone = 0
    /\ used = [slow |-> 0, faults |-> 0, patterns |-> 0]
    /\ calls = <<>> /\ logged = <<>> /\ began = 0

\* signals.log is opened for appending: it may hold lines of an earlier run
OldLine == <<"ETH/USDT", "HAMMER", "LONG", 3>>
InitialLogs == {<<>>, <<OldLine>>}

Init ==
    /\ \E t0 \in 0..MaxStart : DriverAt("start", t0)
    /\ logfile \in InitialLogs
    /\ CandleIdle
    /\ ClockIdle

\* an alignment that sleeps wait0 + 1 without testing wait0
AlignAlways ==
    /\ pc = "start"
    /\ LET wait0 == seconds_until_next_15min(now)
       IN  /\ now' = now + wait0 + SAFETY
           /\ slept' = wait0 + SAFETY
           /\ sleepAt' = now
    /\ pc' = "cycle_start"
    /\ UNCHANGED <<cycle, idx, df, signals, fetchRes, sendRes, logRes, caught,
                   logfile, fetched, finished, fetchFailed, shortFetch,
                   sendFailed, logFailed, delays, k, sleepsDone, used>>
    /\ UNCHANGED <<calls, logged, began>>
    /\ UNCHANGED <<candleVars, clockVars>>

\* lines 104-107: align to the candle boundary
Align ==
    /\ pc = "start"
    /\ LET wait0 == seconds_until_next_15min(now)
       IN  IF wait0 # 0
           THEN /\ now' = now + wait0 + SAFETY
                /\ slept' = wait0 + SAFETY
                /\ sleepAt' = now
           ELSE UNCHANGED <<now, slept, sleepAt>>
    /\ pc' = "cycle_start"
    /\ UNCHANGED <<cycle, idx, df, signals, fetchRes, sendRes, logRes, caught,
                   logfile, fetched, finished, fetchFailed, shortFetch,
                   sendFailed, logFailed, delays, k, sleepsDone, used>>
    /\ UNCHANGED <<calls, logged, began>>
    /\ UNCHANGED <<candleVars, clockVars>>

\* lines 109-114: top of "while True", entry of the for loop
CycleStart ==
    /\ pc = "cycle_start"
    /\ cycle < MaxCycles
    /\ cycle' = cycle + 1
    /\ idx' = 1
    /\ fetched' = <<>> /\ finished' = <<>>
    /\ fetchFailed' = {} /\ shortFetch' = {} /\ sendFailed' = {}
    /\ logFailed' = {}
    /\ delays' = 0
    /\ slept' = 0 /\ sleepAt' = 0
    /\ pc' = "analyze"
    /\ UNCHANGED <<now, df, signals, fetchRes, sendRes, logRes, caught, logfile,
                   k, sleepsDone, used>>
    /\ logged' = <<>>
    /\ began' = now
    /\ UNCHANGED calls
    /\ UNCHANGED <<candleVars, clockVars>>

\* lines 115-118, 128-131: signals = analyze_pair(pair) and the branch on it
AnalyzePair ==
    /\ pc = "analyze"
    /\ \E fetch \in FetchOutcomes, d \in IoDurations :
         LET res == analyze_pair(fetch)
         IN  /\ used' = Spend(d, Faulty(fetch), ~Quiet(fetch.data))
             /\ Allowed(used')
             /\ now' = now + d
             /\ fetched' = fetched \o Repeat(ScanOrder[idx],
                                              fetch_attempts(fetch))
             /\ calls' = calls \o Repeat("fetch", fetch_attempts(fetch))
             /\ fetchRes' = IF fetch.ok THEN "ok" ELSE "error"
             /\ fetchFailed' = IF fetch.ok THEN fetchFailed
                               ELSE fetchFailed \cup {ScanOrder[idx]}
             /\ shortFetch' = IF fetch.ok /\ Len(fetch.data) < 2
                              THEN shortFetch \cup {ScanOrder[idx]}
                              ELSE shortFetch
             /\ df' = fetch.data
             /\ IF res.raised # "none"
                THEN /\ signals' = <<>>
                     /\ k' = 0
                     /\ caught' = res.raised
                     /\ pc' = IF MainCatches(res.raised) THEN "pair_delay"
                              ELSE "crashed"
                ELSE /\ signals' = res.signals
                     /\ caught' = caught
                     /\ IF res.signals # <<>>
                        THEN k' = 1 /\ pc' = "send"
                        ELSE k' = 0 /\ pc' = "pair_delay"
    /\ UNCHANGED <<cycle, idx, sendRes, logRes, logfile, finished, sendFailed,
                   logFailed, delays, slept, sleepAt, sleepsDone>>
    /\ UNCHANGED <<logged, began>>
    /\ UNCHANGED <<candleVars, clockVars>>

\* lines 119-126: format the message and send_telegram(msg)
SendTelegram ==
    /\ pc = "send"
    /\ \E post \in PostOutcomes, d \in IoDurations :
         LET exc == send_telegram(post)
         IN  /\ used' = Spend(d, post # "ok", FALSE)
             /\ Allowed(used')
             /\ now' = now + d
             /\ sendRes' = post
             /\ sendFailed' = IF post = "ok" THEN sendFailed
                              ELSE sendFailed \cup {ScanOrder[idx]}
             /\ IF exc = "none"
                THEN pc' = "log" /\ caught' = caught
                ELSE /\ caught' = exc
                     /\ pc' = IF MainCatches(exc) THEN "pair_delay"
                              ELSE "crashed"
    /\ UNCHANGED <<cycle, idx, df, signals, fetchRes, logRes, logfile, fetched,
                   finished, fetchFailed, shortFetch, logFailed, delays, k,
                   slept, sleepAt, sleepsDone>>
    /\ calls' = Append(calls, "send")
    /\ UNCHANGED <<logged, began>>
    /\ UNCHANGED <<candleVars, clockVars>>

\* the line log_signal writes for signal sig of pair (line 127)
LogLine(pair, sig) == <<pair, sig[1], sig[2], sig[3]>>

\* where the for loop over signals goes after signal k (lines 119, 132)
AfterSignal ==
    IF k < Len(signals) THEN k' = k + 1 /\ pc' = "send"
    ELSE k' = k /\ pc' = "pair_delay"

\* log_signal called outside the per-pair try: a failed append ends main()
LogSignalUnguarded ==
    /\ pc = "log"
    /\ \/ /\ logRes' = "ok"
          /\ logfile' = Append(logfile, LogLine(ScanOrder[idx], signals[k]))
          /\ logged' = Append(logged, ScanOrder[idx])
          /\ AfterSignal
          /\ used' = used
          /\ UNCHANGED <<caught, logFailed>>
       \/ /\ used' = Spend(0, TRUE, FALSE)
          /\ Allowed(used')
          /\ logRes' = "error"
          /\ logFailed' = logFailed \cup {ScanOrder[idx]}
          /\ pc' = "crashed"
          /\ UNCHANGED <<logfile, logged, k, caught>>
    /\ UNCHANGED <<now, cycle, idx, df, signals, fetchRes, sendRes, fetched,
                   finished, fetchFailed, shortFetch, sendFailed, delays,
                   slept, sleepAt, sleepsDone>>
    /\ calls' = Append(calls, "log")
    /\ UNCHANGED began
    /\ UNCHANGED <<candleVars, clockVars>>

\* log_signal opening the file with mode "w": the line replaces the file
LogSignalTruncates ==
    /\ pc = "log"
    /\ \/ /\ logRes' = "ok"
          /\ logfile' = <<LogLine(ScanOrder[idx], signals[k])>>
          /\ logged' = Append(logged, ScanOrder[idx])
          /\ AfterSignal
          /\ UNCHANGED <<caught, logFailed>>
          /\ used' = used
       \/ /\ used' = Spend(0, TRUE, FALSE)
          /\ Allowed(used')
          /\ logRes' = "error"
          /\ logFailed' = logFailed \cup {ScanOrder[idx]}
          /\ caught' = "Exception"
          /\ pc' = IF MainCatches("Exception") THEN "pair_delay" ELSE "crashed"
          /\ UNCHANGED <<logfile, logged, k>>
    /\ UNCHANGED <<now, cycle, idx, df, signals, fetchRes, sendRes, fetched,
                   finished, fetchFailed, shortFetch, sendFailed, delays,
                   slept, sleepAt, sleepsDone>>
    /\ calls' = Append(calls, "log")
    /\ UNCHANGED began
    /\ UNCHANGED <<candleVars, clockVars>>

\* line 127 with lines 34-37: log_signal(...), the append succeeding or
\* open/write raising inside the per-pair try
LogSignal ==
    /\ pc = "log"
    /\ \/ /\ logRes' = "ok"
          /\ logfile' = Append(logfile, LogLine(ScanOrder[idx], signals[k]))
          /\ logged' = Append(logged, ScanOrder[idx])
          /\ AfterSignal
          /\ UNCHANGED <<caught, logFailed>>
          /\ used' = used
       \/ /\ used' = Spend(0, TRUE, FALSE)
          /\ Allowed(used')
          /\ logRes' = "error"
          /\ logFailed' = logFailed \cup {ScanOrder[idx]}
          /\ caught' = "Exception"
          /\ pc' = IF MainCatches("Exception") THEN "pair_delay" ELSE "crashed"
          /\ UNCHANGED <<logfile, logged, k>>
    /\ UNCHANGED <<now, cycle, idx, df, signals, fetchRes, sendRes, fetched,
                   finished, fetchFailed, shortFetch, sendFailed, delays,
                   slept, sleepAt, sleepsDone>>
    /\ calls' = Append(calls, "log")
    /\ UNCHANGED began
    /\ UNCHANGED <<candleVars, clockVars>>

\* the delay placed inside the try: it is skipped when the except ran
PairDelaySkipsOnError ==
    /\ pc = "pair_delay"
    /\ IF caught = "none"
       THEN now' = now + INTER_PAIR_DELAY /\ delays' = delays + 1
       ELSE now' = now /\ delays' = delays
    /\ finished' = Append(finished, ScanOrder[idx])
    /\ df' = <<>> /\ signals' = <<>> /\ fetchRes' = "none"
    /\ sendRes' = "none" /\ logRes' = "none" /\ caught' = "none" /\ k' = 0
    /\ IF idx < Len(ScanOrder)
       THEN idx' = idx + 1 /\ pc' = "analyze"
       ELSE idx' = 0 /\ pc' = "cycle_sleep"
    /\ UNCHANGED <<cycle, logfile, fetched, fetchFailed, shortFetch,
                   sendFailed, logFailed, slept, sleepAt, sleepsDone, used>>
    /\ calls' = <<>>
    /\ UNCHANGED <<logged, began>>
    /\ UNCHANGED <<candleVars, clockVars>>

\* line 132 and the advance of "for pair in PAIRS"
PairDelay ==
    /\ pc = "pair_delay"
    /\ now' = now + INTER_PAIR_DELAY
    /\ delays' = delays + 1
    /\ finished' = Append(finished, ScanOrder[idx])
    /\ df' = <<>> /\ signals' = <<>> /\ fetchRes' = "none"
    /\ sendRes' = "none" /\ logRes' = "none" /\ caught' = "none" /\ k' = 0
    /\ IF idx < Len(ScanOrder)
       THEN idx' = idx + 1 /\ pc' = "analyze"
       ELSE idx' = 0 /\ pc' = "cycle_sleep"
    /\ UNCHANGED <<cycle, logfile, fetched, fetchFailed, shortFetch,
                   sendFailed, logFailed, slept, sleepAt, sleepsDone, used>>
    /\ calls' = <<>>
    /\ UNCHANGED <<logged, began>>
    /\ UNCHANGED <<candleVars, clockVars>>

\* time.sleep(to_sleep) without the safety second
CycleSleepNoSafety ==
    /\ pc = "cycle_sleep"
    /\ slept' = to_sleep(now)
    /\ sleepAt' = now
    /\ now' = now + to_sleep(now)
    /\ sleepsDone' = sleepsDone + 1
    /\ pc' = "cycle_start"
    /\ UNCHANGED <<cycle, idx, df, signals, fetchRes, sendRes, logRes, caught,
                   logfile, fetched, finished, fetchFailed, shortFetch,
                   sendFailed, logFailed, delays, k, used>>
    /\ UNCHANGED <<calls, logged, began>>
    /\ UNCHANGED <<candleVars, clockVars>>

\* lines 134-140: sleep until the next candle closes
CycleSleep ==
    /\ pc = "cycle_sleep"
    /\ slept' = to_sleep(now) + SAFETY
    /\ sleepAt' = now
    /\ now' = now + to_sleep(now) + SAFETY
    /\ sleepsDone' = sleepsDone + 1
    /\ pc' = "cycle_start"
    /\ UNCHANGED <<cycle, idx, df, signals, fetchRes, sendRes, logRes, caught,
                   logfile, fetched, finished, fetchFailed, shortFetch,
                   sendFailed, logFailed, delays, k, used>>
    /\ UNCHANGED <<calls, logged, began>>
    /\ UNCHANGED <<candleVars, clockVars>>

Next ==
    \/ Align
    \/ CycleStart
    \/ AnalyzePair
    \/ SendTelegram
    \/ LogSignal
    \/ PairDelay
    \/ CycleSleep

Spec == Init /\ [][Next]_vars

\* main() is the only thread and every call and sleep returns: a step that
\* can be taken is taken
SpecLive == Spec /\ WF_vars(Next)

----------------------------------------------------------------------------
\* The pattern detector applied to every candle with prices in 0..MaxPrice,
\* whether or not low <= open, close <= high.

AllCandles ==
    {Candle(o, h, l, cl) : o \in 0..MaxPrice, h \in 0..MaxPrice,
                           l \in 0..MaxPrice, cl \in 0..MaxPrice}

\* open=100, high=100.5, low=90, close=99, in ticks of 0.5
ExampleBar == Candle(200, 201, 180, 198)

InitCandle ==
    /\ DriverAt("off", 0)
    /\ logfile = <<>>
    /\ ClockIdle
    /\ bar \in AllCandles \cup {ExampleBar}
    /\ verdict = NoVerdict

\* bar served as the last closed candle, under a newest candle that is
\* still forming
Detect ==
    /\ ~verdict.done
    /\ \E newest \in ServedBars :
         verdict' = [done |-> TRUE,
                     hammer |-> is_hammer_candle(bar),
                     star |-> is_shooting_star_candle(bar),
                     signals |-> analyze_pair(
                                    FetchReturned(<<bar, newest>>)).signals]
    /\ UNCHANGED <<bar, driverVars, clockVars>>

NextCandle == Detect

SpecCandle == InitCandle /\ [][NextCandle]_vars

----------------------------------------------------------------------------
\* seconds_until_next_15min at every timestamp in -MaxClock..MaxClock.

InitClock ==
    /\ DriverAt("off", 0)
    /\ logfile = <<>>
    /\ CandleIdle
    /\ t \in (0 - MaxClock)..MaxClock
    /\ w = -1

AskWait ==
    /\ w = -1
    /\ w' = seconds_until_next_15min(t)
    /\ UNCHANGED <<t, driverVars, candleVars>>

NextClock == AskWait

SpecClock == InitClock /\ [][NextClock]_vars

----------------------------------------------------------------------------
\* Properties of the driver.

Range(seq) == {seq[i] : i \in 1..Len(seq)}
N == Len(PAIRS)
AllPairs == Range(PAIRS)

\* the pairs that follow pair number j in the configured list
After(j) == {PAIRS[m] : m \in (j + 1)..N}

\* the cycle went on past every pair of the set faulty: once the for loop
\* is over, each pair configured after one of them was fetched and its
\* loop body ran to its end
WentOnPast(faulty) ==
    pc \in {"cycle_sleep", "cycle_start"} /\ cycle > 0 =>
        \A j \in 1..N : PAIRS[j] \in faulty =>
            After(j) \subseteq (Range(fetched) \cap Range(finished))

\* C1: a fetch that raises for pair K never ends the process, and every
\* pair configured after K is still fetched and analysed in that cycle.
FetchFailureIsolated ==
    /\ fetchFailed # {} => pc # "crashed"
    /\ fetchRes = "error" /\ pc # "analyze" => pc = "pair_delay"
    /\ WentOnPast(fetchFailed)

FetchFailureWitness ==
    /\ pc = "cycle_sleep"
    /\ PAIRS[1] \in fetchFailed
    /\ fetched = PAIRS /\ finished = PAIRS

\* C2: when the message post of a signal fails (non-200 or exception), the
\* log append of that signal is still made, the process does not end and
\* the pairs configured after it are still processed.
NotifyFailureKeepsLog ==
    /\ sendFailed # {} => pc # "crashed"
    /\ pc = "pair_delay" /\ sendRes \in {"non200", "exception"} =>
         /\ logRes # "none"
         /\ logRes = "ok" =>
              /\ logfile # <<>>
              /\ logfile[Len(logfile)] = LogLine(PAIRS[idx], signals[k])
    /\ WentOnPast(sendFailed)

NotifyFailureWitness ==
    /\ pc = "cycle_sleep"
    /\ PAIRS[1] \in sendFailed
    /\ finished = PAIRS
    /\ Len(logfile) = 1 /\ logfile[1][1] = PAIRS[1]

\* C3: at most one signal is derived for a pair in a cycle, and it is
\* derived from the second-from-newest candle of the fetched sequence.
OneSignalFromLastClosed ==
    /\ Len(signals) <= 1
    /\ signals # <<>> =>
         /\ Len(df) >= 2
         /\ LET b == df[Len(df) - 1]
                sig == signals[1]
            IN  /\ sig[3] = b.close
                /\ \/ sig[1] = "HAMMER" /\ sig[2] = "LONG"
                      /\ is_hammer_candle(b)
                   \/ sig[1] = "SHOOTING_STAR" /\ sig[2] = "SHORT"
                      /\ is_shooting_star_candle(b)
    /\ fetchRes = "ok" /\ Len(df) >= 2 /\ signals = <<>> /\ pc # "analyze" =>
         LET b == df[Len(df) - 1]
         IN  ~is_hammer_candle(b) /\ ~is_shooting_star_candle(b)

OneSignalWitness ==
    /\ pc = "send"
    /\ signals # <<>>
    /\ is_shooting_star_candle(df[Len(df) - 1])
    /\ is_hammer_candle(df[Len(df)])

\* C4: a fetch that returns fewer than two candles gives no signal for
\* that pair, does not end the process, and the pairs configured after it
\* are still processed in the same cycle.
ShortFetchIsolated ==
    /\ shortFetch # {} => pc # "crashed"
    /\ fetchRes = "ok" /\ Len(df) < 2 /\ pc # "analyze" =>
         /\ pc = "pair_delay"
         /\ signals = <<>> /\ sendRes = "none" /\ logRes = "none"
    /\ WentOnPast(shortFetch)

ShortFetchWitness ==
    /\ pc = "cycle_sleep"
    /\ PAIRS[1] \in shortFetch
    /\ fetched = PAIRS /\ finished = PAIRS
    /\ logfile = <<>>

\* C5: a log append that raises for pair K does not end the process, the
\* pairs configured after K are still processed in the same cycle, and
\* the sleep to the next cycle is still made.
LogFailureSwallowed ==
    /\ logFailed # {} => pc # "crashed"
    /\ logRes = "error" => pc = "pair_delay"
    /\ WentOnPast(logFailed)
    /\ logFailed # {} /\ pc = "cycle_start" =>
         slept > 0 /\ now = sleepAt + slept

LogFailureWitness ==
    /\ pc = "cycle_start"
    /\ PAIRS[1] \in logFailed
    /\ fetched = PAIRS /\ finished = PAIRS
    /\ sleepsDone = cycle

\* C7: the sleep between two cycles is never of length zero, and when the
\* scan ends exactly on a boundary it is the full 900 s plus the safety
\* second.
CycleSleepPositive ==
    pc = "cycle_start" /\ sleepsDone > 0 =>
        /\ slept > 0
        /\ now = sleepAt + slept
        /\ sleepAt % TIMEFRAME_SECONDS = 0 =>
             slept = TIMEFRAME_SECONDS + SAFETY

CycleSleepWitness ==
    /\ pc = "cycle_start"
    /\ sleepsDone > 0
    /\ sleepAt % TIMEFRAME_SECONDS = 0
    /\ slept = TIMEFRAME_SECONDS + SAFETY

\* C8: in every cycle the pairs are processed in the configured order,
\* each once, pair i finished before pair i+1 is fetched; and no pair of
\* a cycle is processed before the sleep that follows the cycle before it
\* has returned.
OrderedSequentialCycles ==
    /\ Len(fetched) <= N
    /\ fetched = SubSeq(PAIRS, 1, Len(fetched))
    /\ finished = SubSeq(PAIRS, 1, Len(finished))
    /\ pc = "analyze" => Len(fetched) = idx - 1 /\ Len(finished) = idx - 1
    /\ pc \in {"send", "log", "pair_delay"} =>
         Len(fetched) = idx /\ Len(finished) = idx - 1
    /\ pc = "cycle_sleep" => fetched = PAIRS /\ finished = PAIRS
    /\ pc \in {"analyze", "send", "log", "pair_delay", "cycle_sleep"} =>
         sleepsDone = cycle - 1

OrderedWitness ==
    /\ cycle = 2
    /\ pc = "cycle_sleep"
    /\ fetched = PAIRS /\ finished = PAIRS
    /\ sleepsDone = 1

Count(x, seq) == Cardinality({i \in 1..Len(seq) : seq[i] = x})

\* C13: in a cycle the fetch of a pair is attempted once and no more,
\* whether it succeeds or fails.
NoRetry ==
    /\ \A p \in AllPairs : Count(p, fetched) <= 1
    /\ Count("fetch", calls) <= 1
    /\ pc \in {"send", "log", "pair_delay"} =>
         Count("fetch", calls) = 1 /\ Count(PAIRS[idx], fetched) = 1
    /\ pc = "cycle_sleep" => \A p \in AllPairs : Count(p, fetched) = 1

NoRetryWitness ==
    /\ pc = "cycle_sleep"
    /\ fetchFailed # {}
    /\ \A p \in AllPairs : Count(p, fetched) = 1

\* C14: whatever fetch, analysis, notification and log failures occur,
\* each scan cycle (below the bound on cycles) is followed by another.
ScanningRecurs ==
    \A c \in 1..(MaxCycles - 1) :
        (cycle = c /\ pc = "analyze" /\ idx = 1)
            ~> (cycle = c + 1 /\ pc = "analyze" /\ idx = 1)

ScanningRecursWitness ==
    /\ cycle = 2
    /\ pc = "analyze" /\ idx = 1
    /\ used.faults > 0

\* C15: nothing is fetched before the alignment; a process started off a
\* boundary sleeps (900 - t0 mod 900) + 1 seconds before the first scan,
\* one started on a boundary does not sleep.
AlignBeforeScan ==
    /\ pc = "start" => cycle = 0 /\ fetched = <<>> /\ calls = <<>>
    /\ pc = "cycle_start" /\ cycle = 0 =>
         /\ fetched = <<>> /\ calls = <<>>
         /\ IF slept = 0
            THEN now % TIMEFRAME_SECONDS = 0
            ELSE /\ sleepAt % TIMEFRAME_SECONDS # 0
                 /\ slept = (TIMEFRAME_SECONDS
                               - (sleepAt % TIMEFRAME_SECONDS)) + 1
                 /\ now = sleepAt + slept

AlignWitness ==
    /\ pc = "cycle_start" /\ cycle = 0
    /\ slept > 1
    /\ now = sleepAt + slept

\* the pairs of the last n lines of the log
LastPairs(n) ==
    [i \in 1..n |-> logfile[Len(logfile) - n + i][1]]

\* C16: the log only grows, by one line per signal whose append succeeds,
\* and a cycle adds at most one line per configured pair.
LogAppendOnly ==
    /\ [][\/ logfile' = logfile
          \/ /\ pc = "log" /\ logRes' = "ok"
             /\ logfile' = Append(logfile, LogLine(PAIRS[idx], signals[k]))
         ]_vars
    /\ [][pc = "log" /\ logRes' = "ok" =>
              Len(logfile') = Len(logfile) + 1]_vars
    /\ [](/\ Len(logged) <= N
          /\ \A p \in AllPairs : Count(p, logged) <= 1
          /\ Len(logged) <= Len(logfile)
          /\ logged = LastPairs(Len(logged)))

LogAppendWitness ==
    /\ pc = "pair_delay"
    /\ logRes = "ok"
    /\ Len(logfile) = 2
    /\ logfile[1] = OldLine

\* C17 as amended: with sleeps that last what was requested, a cycle
\* begins one second after a boundary, but for the first cycle of a
\* process started exactly on a boundary, which begins on it.
CycleStartsAfterBoundary ==
    pc = "cycle_start" /\ cycle < MaxCycles =>
        IF cycle = 0 /\ slept = 0
        THEN now % TIMEFRAME_SECONDS = 0
        ELSE now % TIMEFRAME_SECONDS = 1

CycleStartsWitness ==
    /\ pc = "cycle_start" /\ cycle = 1
    /\ sleepAt % TIMEFRAME_SECONDS = 0
    /\ now % TIMEFRAME_SECONDS = 1

\* C17 as claimed: every cycle, the first one too, begins at a time t with
\* t mod 900 = 1.
CycleAlwaysOnePast ==
    pc = "cycle_start" /\ cycle < MaxCycles =>
        now % TIMEFRAME_SECONDS = 1

\* the last boundary at or before time tm
Boundary(tm) == tm - (tm % TIMEFRAME_SECONDS)

\* C18 as amended: when the scan of a cycle begun after boundary B ends
\* before boundary B + 900, the next cycle begins after boundary B + 900.
NextBoundaryWhenScanEndsBefore ==
    pc = "cycle_start" /\ cycle >= 1 /\ sleepsDone = cycle
        /\ sleepAt < Boundary(began) + TIMEFRAME_SECONDS =>
            Boundary(now) = Boundary(began) + TIMEFRAME_SECONDS

NextBoundaryWitness ==
    /\ pc = "cycle_start" /\ cycle >= 1 /\ sleepsDone = cycle
    /\ sleepAt = Boundary(began) + TIMEFRAME_SECONDS - 1
    /\ Boundary(now) = Boundary(began) + TIMEFRAME_SECONDS

\* C18 as claimed: when the scan of a cycle begun after boundary B lasts
\* less than 900 seconds, the next cycle begins after boundary B + 900.
NoBoundarySkipped ==
    pc = "cycle_start" /\ cycle >= 1 /\ sleepsDone = cycle
        /\ sleepAt - began < TIMEFRAME_SECONDS =>
            Boundary(now) = Boundary(began) + TIMEFRAME_SECONDS

\* C19: a message post and a log append are made for a pair iff its fetch
\* succeeded and its second-from-newest candle is a hammer or a shooting
\* star; then each is made once, the post before the append.
NotifierOnlyOnMatch ==
    LET matched ==
            /\ fetchRes = "ok"
            /\ Len(df) >= 2
            /\ \/ is_hammer_candle(df[Len(df) - 1])
               \/ is_shooting_star_candle(df[Len(df) - 1])
    IN  /\ Len(calls) <= 3
        /\ calls = SubSeq(<<"fetch", "send", "log">>, 1, Len(calls))
        /\ pc = "pair_delay" =>
             calls = IF matched THEN <<"fetch", "send", "log">>
                     ELSE <<"fetch">>

NotifierWitness ==
    /\ pc = "pair_delay"
    /\ calls = <<"fetch", "send", "log">>
    /\ sendRes = "exception"

\* C20: one inter-pair delay follows every pair of every cycle, the last
\* one too, whatever the outcome of the pair.
DelayAfterEveryPair ==
    /\ delays = Len(finished)
    /\ pc \in {"analyze", "send", "log", "pair_delay"} => delays = idx - 1
    /\ pc = "cycle_sleep" => delays = N

DelayWitness ==
    /\ pc = "cycle_sleep"
    /\ delays = N
    /\ PAIRS[N] \in (shortFetch \cup logFailed)

----------------------------------------------------------------------------
\* Properties of the pattern detector.

\* C9: no candle, well formed or not, is both a hammer and a shooting star.
NeverBothPatterns ==
    verdict.done => ~(verdict.hammer /\ verdict.star)

\* a hammer whose high lies inside its body
NeverBothWitness ==
    /\ verdict.done
    /\ verdict.hammer
    /\ bar.high < Max(bar.open, bar.close)

\* C10: a candle with open = close is neither a hammer nor a shooting
\* star, and no signal is derived from it.
ZeroBodyNoSignal ==
    verdict.done /\ bar.open = bar.close =>
        ~verdict.hammer /\ ~verdict.star /\ verdict.signals = <<>>

ZeroBodyWitness ==
    /\ verdict.done
    /\ bar.open = bar.close
    /\ bar.low < bar.open
    /\ bar.high > bar.open

\* C11: for a candle with body > 0, analyze_pair yields (HAMMER, LONG,
\* close) iff lowerWick > 1.8 body and upperWick < 0.6 body; otherwise
\* (SHOOTING_STAR, SHORT, close) iff upperWick > 1.8 body and
\* lowerWick < 0.6 body; otherwise nothing.
ClassificationMatches ==
    LET body == Abs(bar.close - bar.open)
        lowerWick == Min(bar.open, bar.close) - bar.low
        upperWick == bar.high - Max(bar.open, bar.close)
        hammer == 10 * lowerWick > 18 * body /\ 10 * upperWick < 6 * body
        star == 10 * upperWick > 18 * body /\ 10 * lowerWick < 6 * body
    IN  verdict.done /\ body > 0 =>
            verdict.signals =
                IF hammer THEN <<<<"HAMMER", "LONG", bar.close>>>>
                ELSE IF star THEN <<<<"SHOOTING_STAR", "SHORT", bar.close>>>>
                ELSE <<>>

ClassificationWitness ==
    /\ verdict.done
    /\ bar.open # bar.close
    /\ bar.close # bar.open /\ bar.close # bar.high /\ bar.close # bar.low
    /\ verdict.signals = <<<<"SHOOTING_STAR", "SHORT", bar.close>>>>

\* C12: the candle open=100, high=100.5, low=90, close=99 is a hammer and
\* gives a HAMMER / LONG signal at 99.
ExampleIsHammer ==
    verdict.done /\ bar = ExampleBar =>
        /\ verdict.hammer
        /\ verdict.signals = <<<<"HAMMER", "LONG", 198>>>>

ExampleWitness ==
    /\ verdict.done
    /\ bar = ExampleBar
    /\ verdict.hammer

----------------------------------------------------------------------------
\* Properties of the boundary arithmetic.

\* C6: the wait w returned at time t satisfies 0 <= w < 900 and
\* (t + w) mod 900 = 0.
WaitReachesBoundary ==
    w # -1 =>
        /\ 0 <= w
        /\ w < TIMEFRAME_SECONDS
        /\ (t + w) % TIMEFRAME_SECONDS = 0

WaitWitness ==
    /\ w # -1
    /\ t % TIMEFRAME_SECONDS = 0
    /\ t # 0

====
